---- MODULE Spec2Model ----
(***************************************************************************)
(* Merge-insertion sort (Ford-Johnson) with an asynchronous comparator.    *)
(*                                                                         *)
(* The source holds two implementations under the name mergeInsertionSort: *)
(*   "v1"  the default export, which wraps the comparator with             *)
(*         _cachedComparator and runs _mergeInsertionSort / _binInsert;    *)
(*   "v2"  the named export, which keeps a main chain of SortingPair       *)
(*         objects and searches it with _binInsertIdx.                     *)
(* Both are modelled, step by step, as one state machine over a call       *)
(* record: every await of the comparator is a separate step, arrays live   *)
(* in a heap and are passed by reference, as in the source.  The caller's  *)
(* comparator either follows the order of the integers ("total") or may    *)
(* answer anything ("any"); each invocation may also reject.               *)
(*                                                                         *)
(* Variables:                                                              *)
(*   call     one call of mergeInsertionSort                               *)
(*   query    one call of a synchronous function (_groupSizes,             *)
(*            _makeGroups, mergeInsertionMaxComparisons)                   *)
(*   wrapper  one closure made by _cachedComparator, queried on its own    *)
(*   search   one call of _binInsertIdx or _binInsert on its own           *)
(*   calls, caches   two interleaved calls of mergeInsertionSort and the   *)
(*            Map objects their wrappers close over (SpecTwo)              *)
(***************************************************************************)
EXTENDS Integers, Sequences, FiniteSets

VARIABLES call, query, wrapper, calls, caches, search

vars == <<call, query, wrapper, calls, caches, search>>

(* ------------------------------ bounds --------------------------------- *)
\* every permutation of 1..n is sorted for n <= MaxLen
MaxLen == 6
\* rotations of 1..n and their reversals are sorted for MaxLen < n <= MaxLong
MaxLong == 13
\* inputs with equal items: sequences over 1..MaxDup of length 2..MaxDup+1
MaxDup == 3
\* mergeInsertionMaxComparisons is queried for -MaxNeg..MaxN
MaxN == 56
MaxNeg == 3
\* with a comparator free to answer anything, 1..n is sorted for n <= MaxAnyLen
MaxAnyLen == 7
\* one wrapper made by _cachedComparator gets up to MaxQueries queries, one
\* after the other, for pairs of items of 1..MaxItem
MaxQueries == 3
MaxItem == 3
\* the generator _groupSizes is read up to its MaxGroups-th value
MaxGroups == 29
\* _makeGroups is called on the rotations of 1..n for n <= MaxGroupLen
MaxGroupLen == 11
\* _binInsertIdx and _binInsert are called on their own with the ascending
\* arrays of items of 1..MaxSearch, an item of 1..MaxSearch, and (for
\* _binInsert) a right index of -1..MaxRight
MaxSearch == 7
MaxRight == 3
\* two interleaved calls sort rotations of 1..n for 3 <= n <= MaxTwoLen
MaxTwoLen == 4
MaxLiveLen == 6
MaxLiveQueries == 20

(* --------------------------- array helpers ----------------------------- *)
Min(a, b) == IF a < b THEN a ELSE b

Range(arr) == { arr[k] : k \in DOMAIN arr }

\* array.slice(from, to): 0-based, `to` exclusive, clamped to the length
Slice(arr, from, to) == SubSeq(arr, from + 1, Min(to, Len(arr)))

\* array.splice(idx, 0, item): insert before the 0-based index idx
\* faulty variant: arr.splice(idx, 1, item) takes the item at idx out
SpliceOver(arr, idx, item) ==
    [k \in 1..(IF idx < Len(arr) THEN Len(arr) ELSE Len(arr) + 1) |->
        IF k = idx + 1 THEN item ELSE arr[k]]

Splice(arr, idx, item) ==
    SubSeq(arr, 1, idx) \o <<item>> \o SubSeq(arr, idx + 1, Len(arr))

\* array.reverse()
Reverse(arr) == [k \in 1..Len(arr) |-> arr[Len(arr) + 1 - k]]

\* array.indexOf(item) >= 0
Includes(arr, item) == \E k \in DOMAIN arr : arr[k] = item

\* array.findIndex(v => Object.is(v, x)): 0-based, -1 when absent
FindIndex(arr, x) ==
    IF Includes(arr, x)
    THEN (CHOOSE k \in DOMAIN arr :
            arr[k] = x /\ \A j \in 1..(k - 1) : arr[j] # x) - 1
    ELSE -1

\* faulty variant: only neighbouring items are compared
HasAdjacentDuplicates(arr) == \E k \in 1..(Len(arr) - 1) : arr[k] = arr[k + 1]

\* array.length != new Set(array).size
HasDuplicates(arr) == Len(arr) # Cardinality(Range(arr))

\* the value JavaScript gives for a missing Map entry or object property
Undefined == 0

(* ------------------------- Map<T,T> (pairs) ---------------------------- *)
\* a Map is the sequence of its entries <<key, value>> in insertion order
MapHas(map, key) == \E k \in DOMAIN map : map[k][1] = key

MapGet(map, key) ==
    IF MapHas(map, key)
    THEN map[CHOOSE k \in DOMAIN map : map[k][1] = key][2]
    ELSE Undefined

MapSet(map, key, value) ==
    IF MapHas(map, key)
    THEN [k \in DOMAIN map |-> IF map[k][1] = key THEN <<key, value>> ELSE map[k]]
    ELSE Append(map, <<key, value>>)

MapKeys(map) == [k \in DOMAIN map |-> map[k][1]]

(* ----------------------------- _groupSizes ----------------------------- *)
\* faulty variant: prev is added instead of subtracted
RECURSIVE _groupSizesWrong(_)
_groupSizesWrong(i) == IF i = 0 THEN 0 ELSE 2 ^ i + _groupSizesWrong(i - 1)

\* the i-th value the generator yields (i >= 1); prev is 0 before the first
RECURSIVE _groupSizes(_)
_groupSizes(i) == IF i = 0 THEN 0 ELSE 2 ^ i - _groupSizes(i - 1)

(* ----------------------------- _makeGroups ----------------------------- *)
\* v2: items are tagged with their 0-based index in the input
RECURSIVE MakeGroupsLoop(_, _, _, _)
MakeGroupsLoop(items, i, n, rv) ==
    LET size == _groupSizes(n)
        group == Reverse(Slice(items, i, i + size))
    IN  IF Len(group) < size
        THEN rv \o group
        ELSE MakeGroupsLoop(items, i + size, n + 1, rv \o group)

\* faulty variant: the groups are not reversed
RECURSIVE MakeGroupsLoopNoReverse(_, _, _, _)
MakeGroupsLoopNoReverse(items, i, n, rv) ==
    LET size == _groupSizes(n)
        group == Slice(items, i, i + size)
    IN  IF Len(group) < size
        THEN rv \o group
        ELSE MakeGroupsLoopNoReverse(items, i + size, n + 1, rv \o group)

_makeGroupsNoReverse(array) ==
    MakeGroupsLoopNoReverse([k \in DOMAIN array |-> <<k - 1, array[k]>>], 0, 1, <<>>)

\* faulty variant: the items are tagged with their 1-based index
_makeGroupsOneBased(array) ==
    MakeGroupsLoop([k \in DOMAIN array |-> <<k, array[k]>>], 0, 1, <<>>)

_makeGroups(array) ==
    MakeGroupsLoop([k \in DOMAIN array |-> <<k - 1, array[k]>>], 0, 1, <<>>)

\* v1: items are tagged j+i+3, the index of the paired item in `results`
_makeGroupsV1(items) ==
    MakeGroupsLoop([k \in DOMAIN items |-> <<k - 1 + 3, items[k]>>], 0, 1, <<>>)

(* --------------------- mergeInsertionMaxComparisons -------------------- *)
\* Math.ceil(Math.log2(num/den)) for num/den > 1/2: the least k with 2^k >= num/den
RECURSIVE CeilLog2From(_, _, _)
CeilLog2From(num, den, k) ==
    IF (2 ^ k) * den >= num THEN k ELSE CeilLog2From(num, den, k + 1)

CeilLog2(num, den) == CeilLog2From(num, den, 0)

\* Math.floor(Math.log2(x)) for x >= 1: the greatest k with 2^k <= x
RECURSIVE FloorLog2From(_, _)
FloorLog2From(x, k) == IF 2 ^ (k + 1) > x THEN k ELSE FloorLog2From(x, k + 1)

FloorLog2(x) == FloorLog2From(x, 0)

\* faulty variant: the last term rounds log2(6n) up
MaxComparisonsClosedFormWrong(n) ==
    n * CeilLog2(3 * n, 4) - ((2 ^ FloorLog2(6 * n)) \div 3) + (CeilLog2(6 * n, 1) \div 2)

\* the closed form of the source, for n >= 1
MaxComparisonsClosedForm(n) ==
    n * CeilLog2(3 * n, 4) - ((2 ^ FloorLog2(6 * n)) \div 3) + (FloorLog2(6 * n) \div 2)

\* faulty variant: the argument check lets -1 through
mergeInsertionMaxComparisonsLax(n) ==
    IF n < 0 - 1 THEN <<"must specify zero or more items", 0>>
    ELSE IF n # 0 THEN <<"none", MaxComparisonsClosedForm(n)>>
    ELSE <<"none", 0>>

\* returns <<error, value>>
mergeInsertionMaxComparisons(n) ==
    IF n < 0 THEN <<"must specify zero or more items", 0>>
    ELSE IF n # 0 THEN <<"none", MaxComparisonsClosedForm(n)>>
    ELSE <<"none", 0>>

(* ------------------------- the comparator ------------------------------ *)
\* the caller's comparator over a fixed strict total order, as in the tests:
\* ([a,b]) => a>b ? 0 : 1, i.e. 0 when the first item ranks higher
comp(a, b) == IF a > b THEN 0 ELSE 1

\* what a comparator of the given kind may resolve to: "total" is comp above,
\* "reverse" is the comparator of the opposite order, ([a,b]) => a<b ? 0 : 1,
\* "any" is a Comparator bound by its type alone (Promise<0|1>), e.g. a user
\* whose answers follow no order
Answers(kind, a, b) ==
    IF kind = "total" THEN {comp(a, b)}
    ELSE IF kind = "reverse" THEN {comp(b, a)}
    ELSE {0, 1}

(* --------------------------- the call record --------------------------- *)
\* one frame of mergeInsertionSort / _mergeInsertionSort
NewFrame(arrayId) ==
    [pc |-> "start", array |-> arrayId, i |-> 0, pairs |-> <<>>,
     results |-> 0, larger |-> 0, objs |-> <<>>, mainChain |-> <<>>,
     groups |-> <<>>, g |-> 0, srch |-> <<>>, item |-> Undefined,
     l |-> 0, r |-> 0, m |-> 0]

\* fn is the function called; impl the implementation of the sort it runs in
\* (none for a helper called on its own); item and right are the arguments
\* of a helper called on its own
IdleCall ==
    [fn |-> "none", impl |-> "none", kind |-> "none", status |-> "idle",
     error |-> "none", result |-> 0,
     heap |-> <<>>, stack |-> <<>>, outstanding |-> <<>>, log |-> <<>>,
     cache |-> {}, ready |-> <<>>, snapshot |-> <<>>,
     item |-> Undefined, right |-> 0]

\* the caller's array is the first array of the heap
CallerArray == 1

StartSort(impl, kind, input) ==
    [IdleCall EXCEPT !.fn = "mergeInsertionSort", !.impl = impl, !.kind = kind,
                     !.status = "running", !.heap = <<input>>,
                     !.stack = <<NewFrame(CallerArray)>>, !.snapshot = input]

Top(s) == s.stack[Len(s.stack)]

SetTop(s, f) == [s EXCEPT !.stack[Len(s.stack)] = f]

SetPc(s, pc) == SetTop(s, [Top(s) EXCEPT !.pc = pc])

\* a new array object; its reference is NextRef of the heap before
NextRef(s) == Len(s.heap) + 1

NewArray(s, elems) == [s EXCEPT !.heap = Append(@, elems)]

\* `return ref` of the top frame: the awaiting caller resumes with it, or the
\* promise of the top-level call resolves
Ret(s, ref) ==
    IF Len(s.stack) = 1
    THEN [s EXCEPT !.stack = <<>>, !.status = "returned", !.result = ref]
    ELSE LET rest == SubSeq(s.stack, 1, Len(s.stack) - 1)
             caller == rest[Len(rest)]
         IN  [s EXCEPT !.stack =
                [rest EXCEPT ![Len(rest)] =
                    IF s.impl = "v1"
                    THEN [caller EXCEPT !.results = ref, !.pc = "step4"]
                    ELSE [caller EXCEPT !.larger = ref, !.pc = "seed"]]]

\* `throw`: nothing in the source catches, so every frame is unwound and the
\* promise of the top-level call rejects
Throw(s, err) ==
    [s EXCEPT !.stack = <<>>, !.status = "failed", !.error = err]

(* ------------------ calling the comparator (one await) ----------------- *)
\* the caller's comparator is invoked: the invocation is outstanding until it
\* resolves or rejects
StartComparator(s, a, b) ==
    [s EXCEPT !.outstanding = Append(@, <<a, b>>),
              !.log = Append(@, [a |-> a, b |-> b, out |-> "pending"])]

\* cache: Map<T, Map<T, 0|1>> as the set of its entries <<a, b, rv>>
CacheHas(cache, a, b) == \E e \in cache : e[1] = a /\ e[2] = b

CacheGet(cache, a, b) == (CHOOSE e \in cache : e[1] = a /\ e[2] = b)[3]

CacheSet(cache, a, b, rv) ==
    { e \in cache : ~(e[1] = a /\ e[2] = b) } \cup { <<a, b, rv>> }

\* faulty variant: the wrapper looks up the pair in the given order only
_cachedComparatorOneWay(s, a, b) ==
    IF CacheHas(s.cache, a, b)
    THEN [s EXCEPT !.ready = <<CacheGet(s.cache, a, b)>>]
    ELSE StartComparator(s, a, b)

\* faulty variant: the wrapper never consults its cache
_cachedComparatorNoCache(s, a, b) == StartComparator(s, a, b)

\* the wrapper up to its first await: a hit answers without the comparator
_cachedComparator(s, a, b) ==
    IF CacheHas(s.cache, a, b)
    THEN [s EXCEPT !.ready = <<CacheGet(s.cache, a, b)>>]
    ELSE IF CacheHas(s.cache, b, a)
    THEN [s EXCEPT !.ready = <<IF CacheGet(s.cache, b, a) = 1 THEN 0 ELSE 1>>]
    ELSE StartComparator(s, a, b)

\* `await comparator([a, b])` in the sort: v1 got the cached wrapper
Invoke(s, a, b) ==
    IF s.impl = "v1" THEN _cachedComparator(s, a, b) ELSE StartComparator(s, a, b)

(* ------------------------------ pairing -------------------------------- *)
\* faulty variant: the two items are handed over in the opposite order
PairAtSwapped(arr, i) == <<arr[i + 2], arr[i + 1]>>

\* faulty variant: the same index is used twice
PairAtSame(arr, i) == <<arr[i + 1], arr[i + 1]>>

\* the items compared at loop index i (0-based): array[i], array[i+1]
PairAt(arr, i) == <<arr[i + 1], arr[i + 2]>>

\* faulty variant: the pairing round starts all its comparisons at once
RECURSIVE PairingIssueAll(_, _, _)
PairingIssueAll(s, arr, i) ==
    IF i < Len(arr) - 1
    THEN PairingIssueAll(StartComparator(s, PairAt(arr, i)[1], PairAt(arr, i)[2]),
                         arr, i + 2)
    ELSE s

\* one iteration of the pairing loop up to its await
PairingIssue(s, arr, i) == Invoke(s, PairAt(arr, i)[1], PairAt(arr, i)[2])

\* the loop body after the await, and the loop test
PairingNext(s, c) ==
    LET f == Top(s)
        arr == s.heap[f.array]
        pairs2 == IF c = 1
                  THEN MapSet(f.pairs, arr[f.i + 2], arr[f.i + 1])
                  ELSE MapSet(f.pairs, arr[f.i + 1], arr[f.i + 2])
        s2 == SetTop(s, [f EXCEPT !.pairs = pairs2, !.i = f.i + 2])
    IN  IF f.i + 2 < Len(arr) - 1
        THEN PairingIssue(s2, arr, f.i + 2)
        ELSE SetPc(s2, "recurse")

(* ---------------------------- function entry --------------------------- *)
\* faulty variant: the two items are swapped in the caller's array
Length2ReturnInPlace(s, c) ==
    LET f == Top(s)
        arr == s.heap[f.array]
    IN  Ret([s EXCEPT !.heap[f.array] =
                IF c = 1 THEN arr ELSE <<arr[2], arr[1]>>], f.array)

\* faulty variant: the branches of the conditional are exchanged
Length2ReturnFlipped(s, c) ==
    LET arr == s.heap[Top(s).array]
    IN  Ret(NewArray(s, IF c = 1 THEN <<arr[2], arr[1]>> ELSE arr), NextRef(s))

\* return c ? Array.from(array) : [array[1], array[0]]
Length2Return(s, c) ==
    LET arr == s.heap[Top(s).array]
    IN  Ret(NewArray(s, IF c = 1 THEN arr ELSE <<arr[2], arr[1]>>), NextRef(s))

\* the special cases at the top of the function, then the first comparison
Enter(s) ==
    LET f == Top(s)
        arr == s.heap[f.array]
    IN  IF Len(arr) < 1 THEN Ret(NewArray(s, <<>>), NextRef(s))
        ELSE IF Len(arr) = 1 THEN Ret(NewArray(s, arr), NextRef(s))
        ELSE IF HasDuplicates(arr)
        THEN Throw(s, "array may not contain duplicate items")
        ELSE IF Len(arr) = 2 THEN Invoke(SetPc(s, "length2"), arr[1], arr[2])
        ELSE PairingIssue(SetPc(s, "pairing"), arr, 0)

\* step 3: the recursive call on Array.from(pairs.keys())
Recurse(s) ==
    LET f == Top(s)
        s2 == NewArray(SetPc(s, "awaitSort"), MapKeys(f.pairs))
    IN  [s2 EXCEPT !.stack = Append(@, NewFrame(NextRef(s)))]

(* ------------------- main chain and insertion order -------------------- *)
\* v2: the items of a chain of SortingPair references
ChainItems(objs, chain) == [k \in DOMAIN chain |-> objs[chain[k]].item]

\* v2: mainChain = larger.map(l => ({ item: l, smaller: pairs.get(l) }))
SeedChain(s) ==
    LET f == Top(s)
        larger == s.heap[f.larger]
    IN  SetTop(s, [f EXCEPT
            !.objs = [k \in DOMAIN larger |->
                        [item |-> larger[k], smaller |-> MapGet(f.pairs, larger[k])]],
            !.mainChain = [k \in DOMAIN larger |-> k],
            !.pc = "step4"])

\* faulty variant: the first pair keeps its smaller item (v2: no delete;
\* v1: `remaining` starts at results.slice(1))
Step4NoDetach(s) ==
    LET f == Top(s)
    IN  IF s.impl = "v1"
        THEN LET results == s.heap[f.results]
             IN  SetPc([s EXCEPT !.heap[f.results] =
                            <<MapGet(f.pairs, results[1])>> \o results], "group")
        ELSE LET first == f.mainChain[1]
                 new == Len(f.objs) + 1
                 objs2 == Append(f.objs,
                            [item |-> f.objs[first].smaller, smaller |-> Undefined])
             IN  SetTop(s, [f EXCEPT
                    !.objs = objs2,
                    !.mainChain = <<new>> \o f.mainChain,
                    !.pc = "group"])

\* step 4: the item paired with the smallest larger item goes first
\* v1: results.unshift(pairs.get(results[0]))
\* v2: mainChain.unshift({ item: mainChain[0].smaller }); delete mainChain[1].smaller
Step4(s) ==
    LET f == Top(s)
    IN  IF s.impl = "v1"
        THEN LET results == s.heap[f.results]
             IN  SetPc([s EXCEPT !.heap[f.results] =
                            <<MapGet(f.pairs, results[1])>> \o results], "group")
        ELSE LET first == f.mainChain[1]
                 new == Len(f.objs) + 1
                 objs2 == Append(f.objs,
                            [item |-> f.objs[first].smaller, smaller |-> Undefined])
             IN  SetTop(s, [f EXCEPT
                    !.objs = [objs2 EXCEPT ![first].smaller = Undefined],
                    !.mainChain = <<new>> \o f.mainChain,
                    !.pc = "group"])

\* v1: remaining = results.slice(2).map(e => pairs.get(e)), leftover last
Remaining(s) ==
    LET f == Top(s)
        arr == s.heap[f.array]
        rest == Slice(s.heap[f.results], 2, Len(s.heap[f.results]))
        smaller == [k \in DOMAIN rest |-> MapGet(f.pairs, rest[k])]
    IN  IF Len(arr) % 2 = 1 THEN Append(smaller, arr[Len(arr)]) ELSE smaller

\* faulty variant: the leftover item of an odd-length array is forgotten
GroupNoLeftover(s) ==
    LET f == Top(s)
        rest == Slice(s.heap[f.results], 2, Len(s.heap[f.results]))
    IN  IF s.impl = "v1"
        THEN SetTop(s, [f EXCEPT
                !.groups = _makeGroupsV1([k \in DOMAIN rest |-> MapGet(f.pairs, rest[k])]),
                !.g = 1, !.pc = "insert"])
        ELSE LET grouped == _makeGroups(Slice(f.mainChain, 2, Len(f.mainChain)))
             IN  SetTop(s, [f EXCEPT
                    !.groups = [k \in DOMAIN grouped |-> grouped[k][2]],
                    !.g = 1, !.pc = "insert"])

\* the items still to insert, grouped and reordered
\* v1: groups = _makeGroups(remaining), entries [idx, item]
\* v2: toInsert = mainChain.slice(2), plus { item: leftover };
\*     groups = _makeGroups(toInsert).map(g => g[1]), references to pairs
Group(s) ==
    LET f == Top(s)
        arr == s.heap[f.array]
    IN  IF s.impl = "v1"
        THEN SetTop(s, [f EXCEPT !.groups = _makeGroupsV1(Remaining(s)),
                                 !.g = 1, !.pc = "insert"])
        ELSE LET odd == Len(arr) % 2 = 1
                 new == Len(f.objs) + 1
                 objs2 == IF odd
                          THEN Append(f.objs,
                                 [item |-> arr[Len(arr)], smaller |-> Undefined])
                          ELSE f.objs
                 rest == Slice(f.mainChain, 2, Len(f.mainChain))
                 toInsert == IF odd THEN Append(rest, new) ELSE rest
                 grouped == _makeGroups(toInsert)
             IN  SetTop(s, [f EXCEPT
                    !.objs = objs2,
                    !.groups = [k \in DOMAIN grouped |-> grouped[k][2]],
                    !.g = 1, !.pc = "insert"])

(* ------------------------- binary insertion ---------------------------- *)
\* v2: the insertion is done: mainChain.splice(insertIdx, 0, { item: insertItem })
\* and delete pair.smaller;  v1: array.splice(l, 0, item) at the end of _binInsert
FinishInsert(s, idx) ==
    LET f == Top(s)
    IN  IF s.impl = "v1"
        THEN SetTop([s EXCEPT !.heap[f.results] = Splice(@, idx, f.item)],
                    [f EXCEPT !.g = f.g + 1, !.pc = "insert"])
        ELSE LET new == Len(f.objs) + 1
                 objs2 == Append(f.objs, [item |-> f.item, smaller |-> Undefined])
             IN  SetTop(s, [f EXCEPT
                    !.objs = [objs2 EXCEPT ![f.groups[f.g]].smaller = Undefined],
                    !.mainChain = Splice(f.mainChain, idx, new),
                    !.g = f.g + 1, !.pc = "insert"])

\* the end of a binary search
\* in the sort: the insertion and the next round of the loop;
\* _binInsertIdx called on its own: `return l` (or the special cases' value);
\* _binInsert called on its own: array.splice(l, 0, item) and return
SearchDone(s, idx) ==
    IF s.fn = "_binInsertIdx"
    THEN [s EXCEPT !.stack = <<>>, !.status = "returned", !.result = idx]
    ELSE IF s.fn = "_binInsert"
    THEN [s EXCEPT !.heap[Top(s).results] = Splice(@, idx, Top(s).item),
                   !.stack = <<>>, !.status = "returned"]
    ELSE FinishInsert(s, idx)

\* faulty variant: the midpoint is the left end (a linear scan)
MidLeft(l, r) == l

\* v1 midpoint: Math.floor((l+r)/2);  v2 midpoint: l + Math.floor((r-l)/2)
MidV1(l, r) == (l + r) \div 2

Mid(l, r) == l + ((r - l) \div 2)

\* faulty variant: `right` is checked but not used, the whole array is searched
_binInsertUnbounded(s, right, item) ==
    LET f == Top(s)
        array == s.heap[f.results]
        r == Len(array) - 1
        f2 == [f EXCEPT !.item = item, !.l = 0, !.r = r, !.m = MidV1(0, r),
                        !.pc = "binInsert"]
    IN  IF Includes(array, item) THEN Throw(s, "item is already in target array")
        ELSE IF right < 0 THEN Throw(s, "right index may not be negative")
        ELSE IF 0 <= r THEN Invoke(SetTop(s, f2), item, array[MidV1(0, r) + 1])
        ELSE SearchDone(SetTop(s, f2), 0)

\* v1 _binInsert(array, right, item, comparator) up to its first await
_binInsert(s, right, item) ==
    LET f == Top(s)
        array == s.heap[f.results]
        r == Min(right, Len(array) - 1)
        f2 == [f EXCEPT !.item = item, !.l = 0, !.r = r, !.m = MidV1(0, r),
                        !.pc = "binInsert"]
    IN  IF Includes(array, item) THEN Throw(s, "item is already in target array")
        ELSE IF right < 0 THEN Throw(s, "right index may not be negative")
        ELSE IF 0 <= r THEN Invoke(SetTop(s, f2), item, array[MidV1(0, r) + 1])
        ELSE SearchDone(SetTop(s, f2), 0)

\* v1: the loop body of _binInsert after the await, and the loop test
BinInsertNext(s, c) ==
    LET f == Top(s)
        array == s.heap[f.results]
        l == IF c = 1 THEN f.l ELSE f.m + 1
        r == IF c = 1 THEN f.m - 1 ELSE f.r
        f2 == [f EXCEPT !.l = l, !.r = r, !.m = MidV1(l, r)]
    IN  IF l <= r THEN Invoke(SetTop(s, f2), f.item, array[MidV1(l, r) + 1])
        ELSE SearchDone(SetTop(s, f2), l)

\* faulty variant: the item is not looked up in the array first
_binInsertIdxNoCheck(s, array, item) ==
    LET f == Top(s)
        r == Len(array) - 1
        f2 == [f EXCEPT !.srch = array, !.item = item, !.l = 0, !.r = r,
                        !.m = Mid(0, r)]
    IN  IF Len(array) < 1 THEN SearchDone(SetTop(s, f2), 0)
        ELSE IF Len(array) = 1
        THEN Invoke(SetTop(s, [f2 EXCEPT !.pc = "binInsertIdx1"]), item, array[1])
        ELSE Invoke(SetTop(s, [f2 EXCEPT !.pc = "binInsertIdx"]),
                    item, array[Mid(0, r) + 1])

\* v2 _binInsertIdx(array, item, comp) up to its first await
_binInsertIdx(s, array, item) ==
    LET f == Top(s)
        r == Len(array) - 1
        f2 == [f EXCEPT !.srch = array, !.item = item, !.l = 0, !.r = r,
                        !.m = Mid(0, r)]
    IN  IF Len(array) < 1 THEN SearchDone(SetTop(s, f2), 0)
        ELSE IF Includes(array, item)
        THEN Throw(s, "item is already in target array")
        ELSE IF Len(array) = 1
        THEN Invoke(SetTop(s, [f2 EXCEPT !.pc = "binInsertIdx1"]), item, array[1])
        ELSE Invoke(SetTop(s, [f2 EXCEPT !.pc = "binInsertIdx"]),
                    item, array[Mid(0, r) + 1])

\* faulty variant: the bounds move to m instead of past it, the range stops
\* shrinking
BinInsertIdxNextNoShrink(s, c) ==
    LET f == Top(s)
        l == IF c = 1 THEN f.l ELSE f.m
        r == IF c = 1 THEN f.m ELSE f.r
        f2 == [f EXCEPT !.l = l, !.r = r, !.m = Mid(l, r)]
    IN  IF l < r THEN Invoke(SetTop(s, f2), f.item, f.srch[Mid(l, r) + 1])
        ELSE IF l <= r /\ c = 0 THEN Invoke(SetTop(s, f2), f.item, f.srch[l + 1])
        ELSE SearchDone(SetTop(s, f2), l)

\* v2: the loop body of _binInsertIdx after the await, and the loop test
BinInsertIdxNext(s, c) ==
    LET f == Top(s)
        l == IF c = 1 THEN f.l ELSE f.m + 1
        r == IF c = 1 THEN f.m - 1 ELSE f.r
        f2 == [f EXCEPT !.l = l, !.r = r, !.m = Mid(l, r)]
    IN  IF l <= r THEN Invoke(SetTop(s, f2), f.item, f.srch[Mid(l, r) + 1])
        ELSE SearchDone(SetTop(s, f2), l)

\* faulty variant: the paired larger item is part of the searched range
PairedRangeInclusive(chain, pairIdx) == Slice(chain, 0, pairIdx + 1)

\* v2: the part of the chain searched for a paired item: mainChain.slice(0, pairIdx)
PairedRange(chain, pairIdx) == Slice(chain, 0, pairIdx)

\* one iteration of the insertion loop up to its first await
InsertNext(s) ==
    LET f == Top(s)
    IN  IF s.impl = "v1"
        THEN _binInsert(s, f.groups[f.g][1] - 1, f.groups[f.g][2])
        ELSE LET ref == f.groups[f.g]
                 pair == f.objs[ref]
             IN  IF pair.smaller = Undefined
                 THEN _binInsertIdx(s, ChainItems(f.objs, f.mainChain), pair.item)
                 ELSE _binInsertIdx(s,
                        ChainItems(f.objs,
                            PairedRange(f.mainChain, FindIndex(f.mainChain, ref))),
                        pair.smaller)

\* the end of the function: v1 returns results, v2 mainChain.map(pair => pair.item)
Finish(s) ==
    LET f == Top(s)
    IN  IF s.impl = "v1" THEN Ret(s, f.results)
        ELSE Ret(NewArray(s, ChainItems(f.objs, f.mainChain)), NextRef(s))

\* faulty variant: the answers of the one-item case are exchanged
Length1IdxFlipped(c) == IF c = 1 THEN 1 ELSE 0

\* v2 _binInsertIdx on a one-item array: return await comp(...) ? 0 : 1
Length1Idx(c) == IF c = 1 THEN 0 ELSE 1

(* --------------------- resuming after the comparator ------------------- *)
\* the code after `await comparator(...)` at the point the top frame waits at
Continue(s, c) ==
    LET pc == Top(s).pc
    IN  CASE pc = "length2" -> Length2Return(s, c)
          [] pc = "pairing" -> PairingNext(s, c)
          [] pc = "binInsert" -> BinInsertNext(s, c)
          [] pc = "binInsertIdx1" -> SearchDone(s, Length1Idx(c))
          [] pc = "binInsertIdx" -> BinInsertIdxNext(s, c)

\* the outcome of the oldest outstanding invocation is recorded in the log
LogOutcome(log, out) ==
    LET k == CHOOSE j \in DOMAIN log :
                log[j].out = "pending" /\ \A h \in 1..(j - 1) : log[h].out # "pending"
    IN  [log EXCEPT ![k].out = out]

\* the wrapper after its await: the answer rv of comp([a, b]) is stored
_cachedComparatorStore(s, rv) ==
    [s EXCEPT !.cache = CacheSet(@, Head(s.outstanding)[1], Head(s.outstanding)[2], rv)]

\* the oldest outstanding invocation of the caller's comparator resolved with c
Answered(s, c) ==
    [s EXCEPT !.outstanding = Tail(@),
              !.log = LogOutcome(@, IF c = 1 THEN "one" ELSE "zero")]

\* the comparator resolves with c: v1's wrapper stores it, then the sort resumes
Resolved(s, c) ==
    Continue(Answered(IF s.impl = "v1" THEN _cachedComparatorStore(s, c) ELSE s, c), c)

\* faulty variant: the failure is swallowed and taken for the answer 0
RejectedAsZero(s) ==
    Continue([s EXCEPT !.outstanding = Tail(@),
                       !.log = LogOutcome(@, "rejected")], 0)

\* the comparator rejects: the await throws
Rejected(s) ==
    Throw([s EXCEPT !.outstanding = Tail(@),
                    !.log = LogOutcome(@, "rejected")], "comparator failed")

(* ------------------------------ inputs --------------------------------- *)
PermutationsOf(n) ==
    { p \in [1..n -> 1..n] : \A a, b \in 1..n : a # b => p[a] # p[b] }

Rotation(n, k) == [j \in 1..n |-> ((j - 1 + k) % n) + 1]

Rotations(n) ==
    { Rotation(n, k) : k \in 0..(n - 1) } \cup
    { Reverse(Rotation(n, k)) : k \in 0..(n - 1) }

DistinctInputs ==
    UNION { PermutationsOf(n) : n \in 0..MaxLen } \cup
    UNION { Rotations(n) : n \in (MaxLen + 1)..MaxLong }

DuplicateInputs ==
    { a \in UNION { [1..n -> 1..MaxDup] : n \in 2..(MaxDup + 1) } :
        \E j, k \in DOMAIN a : j # k /\ a[j] = a[k] }

Inputs == DistinctInputs \cup DuplicateInputs

\* with an arbitrary comparator the order of the input is immaterial
AnyInputs == { [k \in 1..n |-> k] : n \in 0..MaxAnyLen }

InputsOf(kind) == IF kind = "total" THEN Inputs ELSE AnyInputs

Kinds == {"total", "any"}

Impls == {"v1", "v2"}

\* a call of one of the synchronous functions: its number or array argument,
\* and the error it threw or the number or list it returned
IdleQuery ==
    [fn |-> "none", n |-> 0, array |-> <<>>, error |-> "none", value |-> 0,
     list |-> <<>>]

GroupInputs == {<<>>} \cup UNION { Rotations(n) : n \in 1..MaxGroupLen }

(* ------------------ the search helpers on their own ------------------- *)
RECURSIVE Ascending(_)
Ascending(S) ==
    IF S = {} THEN <<>>
    ELSE LET x == CHOOSE y \in S : \A z \in S : y <= z
         IN  <<x>> \o Ascending(S \ {x})

SearchArrays == { Ascending(S) : S \in SUBSET (1..MaxSearch) }

\* _binInsertIdx(array, item, comp) is called: it runs up to its first await,
\* its return or its throw
StartBinInsertIdx(kind, array, item) ==
    _binInsertIdx([IdleCall EXCEPT !.fn = "_binInsertIdx", !.kind = kind,
                                   !.status = "running", !.heap = <<array>>,
                                   !.stack = <<NewFrame(CallerArray)>>,
                                   !.snapshot = array, !.item = item],
                  array, item)

\* _binInsert(array, right, item, comparator) is called likewise; `array` is
\* the caller's, modified in place
StartBinInsert(kind, array, right, item) ==
    _binInsert([IdleCall EXCEPT !.fn = "_binInsert", !.kind = kind,
                                !.status = "running", !.heap = <<array>>,
                                !.stack = <<[NewFrame(CallerArray) EXCEPT
                                               !.results = CallerArray]>>,
                                !.snapshot = array, !.item = item, !.right = right],
               right, item)

(* ------------------------ two interleaved calls ------------------------ *)
\* the records a running call can be in after its next step
Successors(s) ==
    IF s.status # "running" THEN {}
    ELSE IF s.outstanding # <<>>
    THEN { Resolved(s, c) :
             c \in Answers(s.kind, Head(s.outstanding)[1], Head(s.outstanding)[2]) }
         \cup { Rejected(s) }
    ELSE IF s.ready # <<>>
    THEN { Continue([s EXCEPT !.ready = <<>>], s.ready[1]) }
    ELSE LET pc == Top(s).pc
         IN  CASE pc = "start" -> { Enter(s) }
               [] pc = "recurse" -> { Recurse(s) }
               [] pc = "seed" -> { SeedChain(s) }
               [] pc = "step4" -> { Step4(s) }
               [] pc = "group" -> { Group(s) }
               [] pc = "insert" ->
                    IF Top(s).g <= Len(Top(s).groups)
                    THEN { InsertNext(s) } ELSE { Finish(s) }

\* faulty variant: one cache at module level serves every wrapper
CacheSlotShared(k) == 1

\* the Map the wrapper of the k-th call closes over: _cachedComparator makes
\* a new one each time it is called, and every call of the sort calls it
CacheSlot(k) == k

NoCalls == [k \in 1..2 |-> IdleCall]

NoCaches == [k \in 1..2 |-> {}]

TwoInputs == UNION { { Rotation(n, k) : k \in 0..(n - 1) } : n \in 3..MaxTwoLen }

\* the k-th call runs with the cache its wrapper closes over
WithCache(k) == [calls[k] EXCEPT !.cache = caches[CacheSlot(k)]]

(* ------------------- a wrapper of _cachedComparator -------------------- *)
\* the closure _cachedComparator(comp) returns, used on its own: its cache,
\* the invocations of comp it made (log), and what each query got back
\* (answers: the pair asked, the winner or "rejected", and how many
\* invocations of comp had been made when the query was answered)
NoWrapper ==
    [status |-> "none", kind |-> "none", cache |-> {}, ready |-> <<>>,
     outstanding |-> <<>>, log |-> <<>>, answers |-> <<>>]

NewWrapper(kind) == [NoWrapper EXCEPT !.status = "made", !.kind = kind]

Answer(w, a, b, rv) ==
    [w EXCEPT !.answers = Append(@, [a |-> a, b |-> b, rv |-> rv, made |-> Len(w.log)])]

\* a query up to its first await; a hit returns Promise.resolve(...) at once
WrapperQueried(w, a, b) ==
    LET w2 == _cachedComparator(w, a, b)
    IN  IF w2.ready # <<>>
        THEN Answer([w2 EXCEPT !.ready = <<>>], a, b, IF w2.ready[1] = 1 THEN "one" ELSE "zero")
        ELSE w2

\* comp resolved with rv: the wrapper stores and returns it
WrapperResolved(w, rv) ==
    Answer(Answered(_cachedComparatorStore(w, rv), rv),
           Head(w.outstanding)[1], Head(w.outstanding)[2],
           IF rv = 1 THEN "one" ELSE "zero")

\* faulty variant: the pair is stored (as 0) before the failure is passed on
WrapperRejectedStoring(w) ==
    Answer([w EXCEPT !.outstanding = Tail(@), !.log = LogOutcome(@, "rejected"),
                     !.cache = CacheSet(@, Head(w.outstanding)[1],
                                           Head(w.outstanding)[2], 0)],
           Head(w.outstanding)[1], Head(w.outstanding)[2], "rejected")

\* comp rejected: the await throws out of the wrapper, nothing is stored
WrapperRejected(w) ==
    Answer([w EXCEPT !.outstanding = Tail(@), !.log = LogOutcome(@, "rejected")],
           Head(w.outstanding)[1], Head(w.outstanding)[2], "rejected")

(* ------------------------------ actions -------------------------------- *)
Init ==
    /\ call = IdleCall /\ query = IdleQuery /\ wrapper = NoWrapper
    /\ calls = NoCalls /\ caches = NoCaches /\ search = IdleCall

Idle ==
    /\ call.status = "idle" /\ query.fn = "none" /\ wrapper.status = "none"
    /\ calls = NoCalls /\ search.status = "idle"

Running == call.status = "running"

Waiting == call.outstanding # <<>> \/ call.ready # <<>>

AtPc(pc) == Running /\ ~Waiting /\ Top(call).pc = pc

\* mergeInsertionSort(array, comparator) is called
CallSort ==
    /\ Idle
    /\ \E impl \in Impls, kind \in Kinds :
          \E input \in InputsOf(kind) : call' = StartSort(impl, kind, input)
    /\ UNCHANGED <<query, wrapper, calls, caches, search>>

\* mergeInsertionMaxComparisons(n) is called and returns or throws
CallMax ==
    /\ Idle
    /\ \E n \in (0 - MaxNeg)..MaxN :
          query' = [IdleQuery EXCEPT
                      !.fn = "mergeInsertionMaxComparisons", !.n = n,
                      !.error = mergeInsertionMaxComparisons(n)[1],
                      !.value = mergeInsertionMaxComparisons(n)[2]]
    /\ UNCHANGED <<call, wrapper, calls, caches, search>>

\* _groupSizes() is called and next() is called n times on the generator
CallGroupSizes ==
    /\ Idle
    /\ \E n \in 1..MaxGroups :
          query' = [IdleQuery EXCEPT
                      !.fn = "_groupSizes", !.n = n,
                      !.list = [k \in 1..n |-> _groupSizes(k)]]
    /\ UNCHANGED <<call, wrapper, calls, caches, search>>

\* _makeGroups(array) is called and returns
CallMakeGroups ==
    /\ Idle
    /\ \E array \in GroupInputs :
          query' = [IdleQuery EXCEPT
                      !.fn = "_makeGroups", !.array = array,
                      !.list = _makeGroups(array)]
    /\ UNCHANGED <<call, wrapper, calls, caches, search>>

EnterStep == AtPc("start") /\ call' = Enter(call) /\ UNCHANGED <<query, wrapper, calls, caches, search>>

ComparatorResolve ==
    /\ Running /\ call.outstanding # <<>>
    /\ \E c \in Answers(call.kind, Head(call.outstanding)[1],
                                     Head(call.outstanding)[2]) :
          call' = Resolved(call, c)
    /\ UNCHANGED <<query, wrapper, calls, caches, search>>

ComparatorReject ==
    /\ Running /\ call.outstanding # <<>>
    /\ call' = Rejected(call)
    /\ UNCHANGED <<query, wrapper, calls, caches, search>>

\* v1: the wrapper answered from its cache
CacheHit ==
    /\ Running /\ call.ready # <<>>
    /\ call' = Continue([call EXCEPT !.ready = <<>>], call.ready[1])
    /\ UNCHANGED <<query, wrapper, calls, caches, search>>

RecurseStep == AtPc("recurse") /\ call' = Recurse(call) /\ UNCHANGED <<query, wrapper, calls, caches, search>>

SeedChainStep == AtPc("seed") /\ call' = SeedChain(call) /\ UNCHANGED <<query, wrapper, calls, caches, search>>

Step4Step == AtPc("step4") /\ call' = Step4(call) /\ UNCHANGED <<query, wrapper, calls, caches, search>>

GroupStep == AtPc("group") /\ call' = Group(call) /\ UNCHANGED <<query, wrapper, calls, caches, search>>

InsertStep ==
    /\ AtPc("insert") /\ Top(call).g <= Len(Top(call).groups)
    /\ call' = InsertNext(call)
    /\ UNCHANGED <<query, wrapper, calls, caches, search>>

FinishStep ==
    /\ AtPc("insert") /\ Top(call).g > Len(Top(call).groups)
    /\ call' = Finish(call)
    /\ UNCHANGED <<query, wrapper, calls, caches, search>>

\* _cachedComparator(comp) is called
MakeWrapper ==
    /\ Idle
    /\ \E kind \in Kinds : wrapper' = NewWrapper(kind)
    /\ UNCHANGED <<call, query, calls, caches, search>>

\* the wrapper is queried; the caller awaits each answer before the next query
WrapperQuery ==
    /\ wrapper.status = "made" /\ wrapper.outstanding = <<>>
    /\ Len(wrapper.answers) < MaxQueries
    /\ \E a, b \in 1..MaxItem : a # b /\ wrapper' = WrapperQueried(wrapper, a, b)
    /\ UNCHANGED <<call, query, calls, caches, search>>

WrapperResolve ==
    /\ wrapper.outstanding # <<>>
    /\ \E rv \in Answers(wrapper.kind, Head(wrapper.outstanding)[1],
                                         Head(wrapper.outstanding)[2]) :
          wrapper' = WrapperResolved(wrapper, rv)
    /\ UNCHANGED <<call, query, calls, caches, search>>

WrapperReject ==
    /\ wrapper.outstanding # <<>>
    /\ wrapper' = WrapperRejected(wrapper)
    /\ UNCHANGED <<call, query, calls, caches, search>>

\* _binInsertIdx is called on its own
CallBinInsertIdx ==
    /\ Idle
    /\ \E kind \in Kinds, array \in SearchArrays, item \in 1..MaxSearch :
          search' = StartBinInsertIdx(kind, array, item)
    /\ UNCHANGED <<call, query, wrapper, calls, caches>>

\* _binInsert is called on its own
CallBinInsert ==
    /\ Idle
    /\ \E kind \in Kinds, array \in SearchArrays, item \in 1..MaxSearch,
          right \in (0 - 1)..MaxRight :
          search' = StartBinInsert(kind, array, right, item)
    /\ UNCHANGED <<call, query, wrapper, calls, caches>>

SearchResolve ==
    /\ search.status = "running" /\ search.outstanding # <<>>
    /\ \E c \in Answers(search.kind, Head(search.outstanding)[1],
                                       Head(search.outstanding)[2]) :
          search' = Resolved(search, c)
    /\ UNCHANGED <<call, query, wrapper, calls, caches>>

SearchReject ==
    /\ search.status = "running" /\ search.outstanding # <<>>
    /\ search' = Rejected(search)
    /\ UNCHANGED <<call, query, wrapper, calls, caches>>

Next ==
    \/ CallSort
    \/ CallMax
    \/ CallGroupSizes
    \/ CallMakeGroups
    \/ EnterStep
    \/ ComparatorResolve
    \/ ComparatorReject
    \/ CacheHit
    \/ RecurseStep
    \/ SeedChainStep
    \/ Step4Step
    \/ GroupStep
    \/ InsertStep
    \/ FinishStep
    \/ MakeWrapper
    \/ WrapperQuery
    \/ WrapperResolve
    \/ WrapperReject
    \/ CallBinInsertIdx
    \/ CallBinInsert
    \/ SearchResolve
    \/ SearchReject

Spec == Init /\ [][Next]_vars

\* two calls of the same mergeInsertionSort are started, each with its own
\* input and its own comparator, before either has run
CallTwo ==
    /\ Idle
    /\ \E impl \in Impls, kind \in {"total", "reverse"} :
          \E first, second \in TwoInputs :
             calls' = <<StartSort(impl, "total", first), StartSort(impl, kind, second)>>
    /\ caches' = NoCaches
    /\ UNCHANGED <<call, query, wrapper, search>>

\* the k-th call takes its next step
StepOf(k) ==
    /\ \E t \in Successors(WithCache(k)) :
          /\ calls' = [calls EXCEPT ![k] = t]
          /\ caches' = [caches EXCEPT ![CacheSlot(k)] = t.cache]
    /\ UNCHANGED <<call, query, wrapper, search>>

FirstStep == StepOf(1)

SecondStep == StepOf(2)

NextTwo ==
    \/ CallTwo
    \/ FirstStep
    \/ SecondStep

SpecTwo == Init /\ [][NextTwo]_vars

(* ============================== claims ================================= *)
\* the array the call returned
Result == call.heap[call.result]

\* ascending in the comparator's order: the higher-ranked item comes later
IsAscending(arr) == \A k \in 1..(Len(arr) - 1) : comp(arr[k], arr[k + 1]) = 1

\* two positions of the input hold equal items
EqualItems == \E j, k \in DOMAIN call.snapshot :
                 j # k /\ call.snapshot[j] = call.snapshot[k]

DistinctInput == call.status # "idle" /\ ~EqualItems

\* the unordered pairs handed to the caller's comparator so far
ComparedPairs == { {call.log[k].a, call.log[k].b} : k \in DOMAIN call.log }

TotalOrder == call.kind = "total"

\* C1: for distinct items and a total-order comparator, a call that returns
\* returns exactly the input items in ascending order.  Stated for both
\* implementations; the default export (v1) breaks it from 7 items on.
C1_ReturnsAscending ==
    (DistinctInput /\ TotalOrder /\ call.status = "returned") =>
        /\ Len(Result) = Len(call.snapshot)
        /\ Range(Result) = Range(call.snapshot)
        /\ IsAscending(Result)

\* C1 for the named export alone (v2): it returns the items in ascending order
\* for every input checked; only _mergeInsertionSort (v1) breaks C1.
C1_NamedExportReturnsAscending ==
    call.impl = "v2" => C1_ReturnsAscending

\* C2: at every point of a call on distinct items with a total-order
\* comparator, the number of distinct unordered pairs handed to the caller's
\* comparator is at most mergeInsertionMaxComparisons(n), n the input length.
C2_ComparisonsWithinBound ==
    (DistinctInput /\ TotalOrder) =>
        Cardinality(ComparedPairs)
            <= mergeInsertionMaxComparisons(Len(call.snapshot))[2]

C2_Witness ==
    /\ call.status = "returned" /\ TotalOrder /\ Len(call.snapshot) = 6
    /\ Cardinality(ComparedPairs) = 10

\* C3: the caller's comparator is never invoked twice for the same unordered
\* pair within one call, in either argument order, whatever the level.
C3_NoPairComparedTwice ==
    \A j, k \in DOMAIN call.log :
        j # k => {call.log[j].a, call.log[j].b} # {call.log[k].a, call.log[k].b}

\* the cached wrapper has just answered a repeated query without the comparator
C3_Witness ==
    /\ call.impl = "v1" /\ call.ready # <<>> /\ Len(call.log) >= 3

\* C4: on an input with two equal items the call fails with the duplicate
\* error, straight from the function entry, with no comparator invocation.
C4_DuplicatesRejected ==
    (call.status # "idle" /\ EqualItems) =>
        /\ call.log = <<>>
        /\ call.status \in {"running", "failed"}
        /\ call.status = "running" => (Len(call.stack) = 1 /\ Top(call).pc = "start")
        /\ call.status = "failed" => call.error = "array may not contain duplicate items"

C4_Witness ==
    /\ call.status = "failed" /\ EqualItems
    /\ call.error = "array may not contain duplicate items"
    /\ call.snapshot = <<1, 2, 1>>

\* C5: the caller's array equals its pre-call snapshot at every point of the
\* call and after it, however the call ends.
C5_InputNeverMutated ==
    call.status # "idle" => call.heap[CallerArray] = call.snapshot

\* v1 has spliced into the array it returns, and the input is not in order
C5_Witness ==
    /\ call.status = "returned" /\ call.impl = "v1"
    /\ Len(call.snapshot) >= 3 /\ Result # call.snapshot

\* C6: a rejected comparator invocation is the last invocation of the call,
\* and the call has then failed with that failure, with no result, no frame
\* left to run and nothing outstanding.
C6_ComparatorFailureAborts ==
    \A k \in DOMAIN call.log :
        call.log[k].out = "rejected" =>
            /\ k = Len(call.log)
            /\ call.status = "failed" /\ call.error = "comparator failed"
            /\ call.result = 0
            /\ call.stack = <<>> /\ call.outstanding = <<>> /\ call.ready = <<>>

\* the fifth invocation of a call on five items (a binary search) failed
C6_Witness ==
    /\ call.status = "failed" /\ call.error = "comparator failed"
    /\ Len(call.snapshot) = 5 /\ Len(call.log) = 5
    /\ call.log[5].out = "rejected"

\* C7: at most one comparator invocation is outstanding, and an invocation
\* starts only when every earlier one has produced its outcome.
C7_OneOutstanding ==
    /\ Len(call.outstanding) <= 1
    /\ \A k \in DOMAIN call.log : call.log[k].out = "pending" => k = Len(call.log)

\* the second comparison of the pairing round is outstanding
C7_Witness ==
    /\ call.status = "running" /\ Len(call.outstanding) = 1
    /\ Top(call).pc = "pairing" /\ Top(call).i = 2
    /\ call.log[1].out # "pending"

\* C8: the empty input returns the empty array and a one-item input its item,
\* both without the comparator; a two-item input invokes it exactly once and
\* returns the item that invocation ranked lower first.
C8_BaseCases ==
    /\ (call.status # "idle" /\ Len(call.snapshot) <= 1) =>
          (call.log = <<>> /\ call.status # "failed")
    /\ (call.status = "returned" /\ Len(call.snapshot) <= 1) =>
          Result = call.snapshot
    /\ (DistinctInput /\ Len(call.snapshot) = 2) => Len(call.log) <= 1
    /\ (call.status = "returned" /\ Len(call.snapshot) = 2) =>
          /\ Len(call.log) = 1
          /\ call.log[1].out = "one" => Result = <<call.log[1].a, call.log[1].b>>
          /\ call.log[1].out = "zero" => Result = <<call.log[1].b, call.log[1].a>>
          /\ call.log[1].out \in {"one", "zero"}
          /\ {call.log[1].a, call.log[1].b} = Range(call.snapshot)

C8_Witness ==
    /\ call.status = "returned" /\ TotalOrder /\ call.snapshot = <<2, 1>>
    /\ Result = <<1, 2>> /\ Len(call.log) = 1

\* C9: on an input of distinct items every comparator invocation gets two
\* items that differ.
C9_NeverComparesEqual ==
    DistinctInput => \A k \in DOMAIN call.log : call.log[k].a # call.log[k].b

C9_Witness ==
    /\ call.status = "returned" /\ Len(call.snapshot) = 9
    /\ Len(call.log) >= 16

\* the sum over i = 1..n of ceil(log2(3i/4))
RECURSIVE SumFormula(_)
SumFormula(n) == IF n = 0 THEN 0 ELSE SumFormula(n - 1) + CeilLog2(3 * n, 4)

FirstValues == <<0, 0, 1, 3, 5, 7, 10, 13, 16, 19, 22>>

\* C10: mergeInsertionMaxComparisons(0) = 0, the closed form equals the sum
\* of ceil(log2(3i/4)) for n >= 1, and n = 0..10 give 0,0,1,3,5,7,10,13,16,19,22.
C10_ClosedFormEqualsSum ==
    (query.fn = "mergeInsertionMaxComparisons" /\ query.n >= 0) =>
        /\ query.error = "none"
        /\ query.value = SumFormula(query.n)
        /\ query.n <= 10 => query.value = FirstValues[query.n + 1]

C10_Witness ==
    /\ query.fn = "mergeInsertionMaxComparisons" /\ query.n = 10
    /\ query.value = 22

\* C11: mergeInsertionMaxComparisons(n) throws the invalid-argument error
\* ('must specify zero or more items') for every negative n, and returns a
\* number without an error for every n >= 0.
C11_NegativeRejected ==
    query.fn = "mergeInsertionMaxComparisons" =>
        /\ query.n < 0 => query.error = "must specify zero or more items"
        /\ query.n >= 0 => (query.error = "none" /\ query.value \in Nat)

C11_Witness ==
    /\ query.fn = "mergeInsertionMaxComparisons" /\ query.n = 0 - 1
    /\ query.error = "must specify zero or more items"

(* claims about a wrapper of _cachedComparator used on its own *)
SamePair(x, y) == {x.a, x.b} = {y.a, y.b}

\* the k-th query made the wrapper invoke the wrapped comparator
Invoked(k) ==
    wrapper.answers[k].made > (IF k = 1 THEN 0 ELSE wrapper.answers[k - 1].made)

Inverse(rv) == IF rv = "one" THEN "zero" ELSE "one"

\* what a query for the pair of answer y must get, given the earlier answer x
Consistent(x, y) == IF x.a = y.a THEN y.rv = x.rv ELSE y.rv = Inverse(x.rv)

\* C12 as stated: the wrapped comparator is invoked at most once per
\* unordered pair for the lifetime of the wrapper, and a later query for a
\* pair, in either order, is answered without it, consistently with the first.
\* Violated: an invocation that rejects stores nothing, so the next query for
\* the pair invokes the wrapped comparator again.
C12_InvokedOncePerPair ==
    /\ \A j, k \in DOMAIN wrapper.log :
          j # k => ~SamePair(wrapper.log[j], wrapper.log[k])
    /\ \A j, k \in DOMAIN wrapper.answers :
          (j < k /\ SamePair(wrapper.answers[j], wrapper.answers[k])) =>
              ~Invoked(k) /\ Consistent(wrapper.answers[j], wrapper.answers[k])

\* C12 (amended): for queries made one after the other, the wrapped
\* comparator is invoked again for an unordered pair only if every earlier
\* invocation for that pair rejected; once a query for (a,b) got a winner, a
\* later query for (a,b) gets the same winner and one for (b,a) the inverse,
\* neither invoking the wrapped comparator.
C12_InvokedOncePerAnsweredPair ==
    /\ \A j, k \in DOMAIN wrapper.log :
          (j < k /\ SamePair(wrapper.log[j], wrapper.log[k])) =>
              wrapper.log[j].out = "rejected"
    /\ \A j, k \in DOMAIN wrapper.answers :
          (j < k /\ SamePair(wrapper.answers[j], wrapper.answers[k])
                 /\ wrapper.answers[j].rv # "rejected") =>
              ~Invoked(k) /\ Consistent(wrapper.answers[j], wrapper.answers[k])

\* (1,2) was answered by the wrapped comparator, then (2,1) and (1,2) again
\* from the cache
C12_Witness ==
    /\ Len(wrapper.answers) = 3 /\ Len(wrapper.log) = 1
    /\ wrapper.answers[1] = [a |-> 1, b |-> 2, rv |-> "one", made |-> 1]
    /\ wrapper.answers[2] = [a |-> 2, b |-> 1, rv |-> "zero", made |-> 1]
    /\ wrapper.answers[3] = [a |-> 1, b |-> 2, rv |-> "one", made |-> 1]

(* claims about two interleaved calls *)
\* the step a call takes with a comparator that answers (and answers one way)
AloneNext(s) ==
    IF s.outstanding # <<>>
    THEN Resolved(s, CHOOSE c \in Answers(s.kind, Head(s.outstanding)[1],
                                                   Head(s.outstanding)[2]) : TRUE)
    ELSE CHOOSE t \in Successors(s) : TRUE

\* the call run on its own until it ends
RECURSIVE RunAlone(_)
RunAlone(s) == IF s.status # "running" THEN s ELSE RunAlone(AloneNext(s))

Alone(k) == RunAlone(StartSort(calls[k].impl, calls[k].kind, calls[k].snapshot))

Outcome(c) == IF c = 1 THEN "one" ELSE "zero"

\* C13: of two interleaved calls, each with its own input and comparator,
\* each makes the comparator invocations it makes when run alone, in the same
\* order, and returns the same array; and every comparison its wrapper has
\* cached was decided by its own comparator in that call.
C13_CallsDoNotInterfere ==
    \A k \in 1..2 :
        calls[k].status # "idle" =>
            LET s == calls[k]
                alone == Alone(k)
            IN  /\ Len(s.log) <= Len(alone.log)
                /\ \A j \in DOMAIN s.log :
                      /\ s.log[j].a = alone.log[j].a /\ s.log[j].b = alone.log[j].b
                      /\ s.log[j].out \in {"one", "zero"} =>
                            s.log[j].out = alone.log[j].out
                /\ s.status = "returned" =>
                      /\ s.heap[s.result] = alone.heap[alone.result]
                      /\ Len(s.log) = Len(alone.log)
                /\ \A e \in s.cache :
                      \E j \in DOMAIN s.log :
                          s.log[j] = [a |-> e[1], b |-> e[2], out |-> Outcome(e[3])]

\* both calls sort the same four items, by opposite orders, and the second
\* is answered from its cache while the first is still running
C13_Witness ==
    /\ calls[1].status = "running" /\ calls[2].status = "running"
    /\ calls[1].impl = "v1" /\ calls[2].kind = "reverse"
    /\ calls[1].snapshot = <<1, 2, 3, 4>> /\ calls[2].snapshot = <<1, 2, 3, 4>>
    /\ Len(calls[1].log) >= 3 /\ calls[2].ready # <<>>
    /\ \E e \in caches[1] : \E f \in caches[2] : {e[1], e[2]} = {f[1], f[2]}

(* claims about the main chain *)
\* the confirmed items of the main chain of a frame: v1 keeps them in
\* `results`, v2 in the item fields of `mainChain`
Chain(s, f) ==
    IF s.impl = "v1"
    THEN IF f.results = 0 THEN <<>> ELSE s.heap[f.results]
    ELSE ChainItems(f.objs, f.mainChain)

\* C14: with a total-order comparator the main chain of every recursion level
\* is in ascending order once seeded, after step 4 and after each insertion.
\* Stated for both implementations; _mergeInsertionSort (v1) breaks it from
\* 7 items on, by the insertion that makes C1 fail.
C14_ChainAscending ==
    (DistinctInput /\ TotalOrder /\ call.status = "running") =>
        \A k \in DOMAIN call.stack : IsAscending(Chain(call, call.stack[k]))

\* C14 for the named export alone (v2): its main chain is ascending at every
\* level and every step.
C14_NamedExportChainAscending ==
    call.impl = "v2" => C14_ChainAscending

\* an insertion is due: the loop over the groups has an item left
InsertDue ==
    AtPc("insert") /\ Top(call).g <= Len(Top(call).groups)

\* the call once the search of the insertion due has started
Started == InsertNext(call)

\* the chain items that search covers: v1 searches results[0..r], r as
\* _binInsert sets it first; v2 searches the array handed to _binInsertIdx
SearchedRange(s) ==
    IF s.impl = "v1"
    THEN Slice(s.heap[Top(s).results], 0, Top(s).r + 1)
    ELSE Top(s).srch

\* the larger item the pairing round paired with item; none for the leftover
LargerOf(pairs, item) ==
    IF \E k \in DOMAIN pairs : pairs[k][2] = item
    THEN pairs[CHOOSE k \in DOMAIN pairs : pairs[k][2] = item][1]
    ELSE Undefined

\* the chain before the current position of the paired larger item, or the
\* whole chain for the leftover item
RangeBelowPair(chain, larger) ==
    IF larger = Undefined THEN chain ELSE SubSeq(chain, 1, FindIndex(chain, larger))

\* C15: the search of every insertion covers exactly the chain items before
\* the current position of the inserted item's paired larger item, and the
\* whole current chain for the leftover item.  Stated for both
\* implementations; _mergeInsertionSort (v1) passes _binInsert a right bound
\* fixed when the groups were made, which breaks it from 4 items on.
C15_SearchBelowPair ==
    (DistinctInput /\ InsertDue) =>
        /\ Started.status = "running"
        /\ SearchedRange(Started) =
              RangeBelowPair(Chain(call, Top(call)),
                             LargerOf(Top(call).pairs, Top(Started).item))

\* C15 for the named export alone (v2): it looks up the pair's current index
\* before every insertion, and the claim holds.
C15_NamedExportSearchBelowPair ==
    call.impl = "v2" => C15_SearchBelowPair

(* claims about the group sizes and the insertion order *)
FirstSizes == <<2, 2, 6, 10, 22, 42, 86, 170>>

\* C16: the values _groupSizes yields start with 2, each later one is 2^i
\* less the one before, so that two adjacent values sum to a power of two,
\* and the first eight are 2, 2, 6, 10, 22, 42, 86, 170.
C16_GroupSizes ==
    query.fn = "_groupSizes" =>
        /\ Len(query.list) = query.n
        /\ query.list[1] = 2
        /\ \A i \in 2..query.n :
              /\ query.list[i] = 2 ^ i - query.list[i - 1]
              /\ query.list[i] + query.list[i - 1] = 2 ^ i
        /\ \A i \in 1..Min(query.n, Len(FirstSizes)) : query.list[i] = FirstSizes[i]

C16_Witness ==
    /\ query.fn = "_groupSizes" /\ query.list = FirstSizes

\* the 0-based positions of an input of n items in insertion order: cut into
\* groups of sizes 2, 2, 6, 10, ... from position `start` (group j first),
\* each group from its last position down to its first
RECURSIVE InsertionOrder(_, _, _)
InsertionOrder(n, j, start) ==
    IF start >= n THEN <<>>
    ELSE LET end == Min(start + FirstSizes[j], n)
         IN  [k \in 1..(end - start) |-> end - k] \o InsertionOrder(n, j + 1, end)

ItemInRange ==
    \/ search.fn = "_binInsertIdx" /\ Includes(search.snapshot, search.item)
    \/ search.fn = "_binInsert"
          /\ Includes(Slice(search.snapshot, 0, search.right + 1), search.item)

\* C18: for an ascending array of distinct items (the empty one included), an
\* item not in it and a total-order comparator, _binInsertIdx fails only if
\* the comparator does, and returns an index i of 0..length such that every
\* element before i ranks below the item and every element from i on above.
C18_BinInsertIdxFindsIndex ==
    (search.fn = "_binInsertIdx" /\ search.kind = "total" /\ ~ItemInRange) =>
        /\ search.status = "failed" => search.error = "comparator failed"
        /\ search.status = "returned" =>
              /\ search.result \in 0..Len(search.snapshot)
              /\ \A k \in 1..search.result :
                    comp(search.snapshot[k], search.item) = 1
              /\ \A k \in (search.result + 1)..Len(search.snapshot) :
                    comp(search.item, search.snapshot[k]) = 1

\* the one-item case: 4 goes after the 3 of the array [3]
C18_Witness ==
    /\ search.fn = "_binInsertIdx" /\ search.kind = "total"
    /\ search.status = "returned"
    /\ search.snapshot = <<3>> /\ search.item = 4 /\ search.result = 1

\* C19: _binInsertIdx invokes the comparator at most ceil(log2(L + 1)) times
\* for an array of length L, whatever the item and the answers, and not at
\* all for L = 0.
C19_BinInsertIdxComparisons ==
    search.fn = "_binInsertIdx" =>
        /\ Len(search.log) <= CeilLog2(Len(search.snapshot) + 1, 1)
        /\ Len(search.snapshot) = 0 => search.log = <<>>

\* four items take three comparisons
C19_Witness ==
    /\ search.fn = "_binInsertIdx" /\ search.status = "returned"
    /\ Len(search.snapshot) = 4 /\ Len(search.log) = 3

\* C20: if the item is already in the range given to the binary search, the
\* search fails with 'item is already in target array', without a comparator
\* invocation and with the array as it was.
C20_PresentItemRejected ==
    ItemInRange =>
        /\ search.status = "failed"
        /\ search.error = "item is already in target array"
        /\ search.log = <<>>
        /\ search.heap[CallerArray] = search.snapshot

C20_Witness ==
    /\ search.fn = "_binInsertIdx" /\ search.status = "failed"
    /\ search.snapshot = <<2, 4, 6, 7>> /\ search.item = 6
    /\ search.error = "item is already in target array"

(* ------------- one call under a comparator that always answers --------- *)
\* mergeInsertionSort is called on distinct items with a comparator whose
\* answers are arbitrary
LiveInputs == { [k \in 1..n |-> k] : n \in 0..MaxLiveLen }

CallSortLive ==
    /\ Idle
    /\ \E impl \in Impls, input \in LiveInputs :
          call' = StartSort(impl, "any", input)
    /\ UNCHANGED <<query, wrapper, calls, caches, search>>

\* the comparator answers its oldest query with 0 or 1; it never rejects
ResolveLive == Len(call.log) <= MaxLiveQueries /\ ComparatorResolve

\* the continuations the event loop runs, and the comparator's answers
StepLive ==
    \/ EnterStep
    \/ ResolveLive
    \/ CacheHit
    \/ RecurseStep
    \/ SeedChainStep
    \/ Step4Step
    \/ GroupStep
    \/ InsertStep
    \/ FinishStep

NextLive == CallSortLive \/ StepLive

\* a continuation that can run is run, a query is answered
SpecLive == Init /\ [][NextLive]_vars /\ WF_vars(StepLive)

(* claims about the pairing round *)
\* the array the k-th frame of the stack sorts
LevelArray(k) == call.heap[call.stack[k].array]

\* the comparator invocations made before the k-th level started: each
\* shallower level made its pairing round first, one invocation per pair
RECURSIVE LevelOffset(_)
LevelOffset(k) ==
    IF k = 1 THEN 0 ELSE LevelOffset(k - 1) + (Len(LevelArray(k - 1)) \div 2)

\* C21: at every recursion level with n >= 3 items, the first floor(n/2)
\* comparator invocations of the level are for the input positions (0,1),
\* (2,3), ... in that order, one per adjacent pair; the recursive sort of the
\* larger items starts only after all of them; the last item of an odd input
\* takes part in none.
C21_PairingFirst ==
    (DistinctInput /\ call.status = "running") =>
        \A k \in DOMAIN call.stack :
            LET arr == LevelArray(k)
                n == Len(arr)
                off == LevelOffset(k)
            IN  (n >= 3 /\ call.stack[k].pc # "start") =>
                  /\ \A p \in 1..(n \div 2) :
                        off + p <= Len(call.log) =>
                            /\ call.log[off + p].a = arr[2 * p - 1]
                            /\ call.log[off + p].b = arr[2 * p]
                            /\ n % 2 = 1 => arr[n] \notin {call.log[off + p].a,
                                                             call.log[off + p].b}
                  /\ call.stack[k].pc = "pairing" =>
                        /\ k = Len(call.stack)
                        /\ Len(call.log) = off + (call.stack[k].i \div 2) + 1
                  /\ call.stack[k].pc # "pairing" =>
                        /\ Len(call.log) >= off + (n \div 2)
                        /\ \A p \in 1..(n \div 2) :
                              call.log[off + p].out \in {"one", "zero"}

\* the second level of a call on seven items has made its one pairing query
\* after the three of the first level
C21_Witness ==
    /\ call.status = "running" /\ Len(call.stack) = 2 /\ Len(call.snapshot) = 7
    /\ Top(call).pc = "recurse" /\ Len(call.log) = 4
    /\ call.log[4].a = LevelArray(2)[1] /\ call.log[4].b = LevelArray(2)[2]

(* claims about step 4 and the insertion phase *)
\* the items of the top frame that still wait for their insertion
\* v1: `remaining`, or what is left of `groups`;  v2: the smaller fields of
\* the chain's slots
Pending(s) ==
    LET f == Top(s)
    IN  IF s.impl = "v1"
        THEN IF f.pc = "group" THEN Range(Remaining(s))
             ELSE { f.groups[g][2] : g \in f.g..Len(f.groups) }
        ELSE { f.objs[f.mainChain[k]].smaller : k \in DOMAIN f.mainChain }
             \ {Undefined}

\* C22: step 4 puts the smaller item of the first (lowest) larger item at the
\* front of the chain, leaving the rest of the chain as it was, without a
\* comparator invocation; the item ranks below every other item of the chain,
\* and is no longer pending, nor does the slot after it carry a pending item.
C22_Step4 ==
    [][(AtPc("step4") /\ DistinctInput /\ TotalOrder) =>
          LET before == Chain(call, Top(call))
              after == Chain(call', Top(call'))
              f == Top(call')
          IN  /\ after = <<MapGet(Top(call).pairs, before[1])>> \o before
              /\ call'.log = call.log
              /\ call'.outstanding = <<>> /\ call'.ready = <<>>
              /\ \A k \in 2..Len(after) : comp(after[1], after[k]) = 1
              /\ after[1] \notin Pending(call')
              /\ call.impl = "v2" =>
                    /\ f.objs[f.mainChain[1]].smaller = Undefined
                    /\ f.objs[f.mainChain[2]].smaller = Undefined
      ]_vars

\* step 4 has run on the chain [5, 6, 7] of the larger items of a 7-item input
C22_Witness ==
    /\ AtPc("group") /\ TotalOrder /\ Len(call.stack) = 1
    /\ Len(call.snapshot) = 7 /\ Len(Chain(call, Top(call))) = 4
    /\ Cardinality(Pending(call)) >= 2

\* the slots of the chain of the frame at depth k: v2's references to the
\* objects of mainChain, v1's items of `results`
Slots(s, k) ==
    IF s.impl = "v1" THEN s.heap[s.stack[k].results] ELSE s.stack[k].mainChain

InsertionPcs == {"insert", "binInsert", "binInsertIdx1", "binInsertIdx"}

\* `after` is `before` with one more slot at position idx
OneMore(before, after, idx) ==
    /\ Len(after) = Len(before) + 1
    /\ \A j \in 1..Len(before) : before[j] = after[IF j < idx THEN j ELSE j + 1]

\* C23: whenever the chain of a frame changes in the insertion phase, it gets
\* exactly one more slot, and the slots it had stay, in the order they had.
C23_InsertionAddsOneSlot ==
    [][\A k \in DOMAIN call.stack :
          ( /\ call.fn = "mergeInsertionSort"
            /\ k \in DOMAIN call'.stack
            /\ call.stack[k].pc \in InsertionPcs
            /\ Slots(call', k) # Slots(call, k) ) =>
              /\ \E idx \in 1..Len(Slots(call', k)) :
                    OneMore(Slots(call, k), Slots(call', k), idx)
              /\ Chain(call', call'.stack[k])[CHOOSE idx \in 1..Len(Slots(call', k)) :
                        OneMore(Slots(call, k), Slots(call', k), idx)]
                    = call.stack[k].item
      ]_vars

\* three insertions of a 7-item sort under an arbitrary comparator are done,
\* the last of them not at the front of the chain
C23_Witness ==
    /\ AtPc("insert") /\ call.fn = "mergeInsertionSort" /\ call.kind = "any"
    /\ Len(call.stack) = 1 /\ Len(call.snapshot) = 7 /\ Top(call).g = 4
    /\ Len(Slots(call, 1)) = 7
    /\ Chain(call, Top(call))[1] # Top(call).item

(* claims about arbitrary comparators *)
\* C24: a call of mergeInsertionSort on distinct items whose comparator
\* answers every query with 0 or 1, whatever the answers, eventually returns.
C24_Terminates ==
    (call.status = "running") ~> (call.status = "returned")

\* a sort of 6 items, with a recursion two levels deep below it, has returned
\* after 10 answers that are not those of the items' natural order
C24_Witness ==
    /\ call.fn = "mergeInsertionSort" /\ call.status = "returned"
    /\ call.kind = "any" /\ Len(call.snapshot) = 6
    /\ call.impl = "v2" /\ Len(call.log) = 10 /\ ~IsAscending(Result)

\* the number of positions of arr that hold x
Count(arr, x) == Cardinality({ k \in DOMAIN arr : arr[k] = x })

\* C25: for distinct items and a comparator answering 0 or 1, whatever the
\* answers, a call that returns returns as many items as the input has, each
\* input item exactly once, and no call ends by the error "item is already in
\* target array".
C25_ReturnsPermutation ==
    (call.fn = "mergeInsertionSort" /\ DistinctInput) =>
        /\ call.error # "item is already in target array"
        /\ call.status = "returned" =>
              /\ Len(Result) = Len(call.snapshot)
              /\ \A k \in DOMAIN call.snapshot : Count(Result, call.snapshot[k]) = 1

\* a sort of 7 items under an arbitrary comparator has returned its items in
\* another order than their natural one
C25_Witness ==
    /\ call.fn = "mergeInsertionSort" /\ call.status = "returned"
    /\ call.kind = "any" /\ call.impl = "v2" /\ Len(call.snapshot) = 7
    /\ Result[1] = 7 /\ Result[7] = 1

(* claims about the insertion groups *)
\* the insertion group (1, 2, 3, ... of sizes 2, 2, 6, ...) of the g-th item
\* in insertion order
GroupOf(g) ==
    LET upto(k) == IF k = 0 THEN 0
                   ELSE LET S[j \in 1..k] == FirstSizes[j] + (IF j = 1 THEN 0 ELSE S[j - 1])
                        IN  S[k]
    IN  CHOOSE k \in DOMAIN FirstSizes : upto(k - 1) < g /\ g <= upto(k)

\* the number of invocations at the end of the log whose first item is item:
\* those of the search for item that is under way or just over
RECURSIVE Trailing(_, _)
Trailing(log, item) ==
    IF log = <<>> \/ log[Len(log)].a # item THEN 0
    ELSE 1 + Trailing(SubSeq(log, 1, Len(log) - 1), item)

Searching == Top(call).pc \in {"binInsert", "binInsertIdx1", "binInsertIdx"}

\* C26: at every recursion level the search for an item of the k-th insertion
\* group covers at most 2^(k+1) - 1 chain items and invokes the comparator
\* at most k + 1 times, for a paired item and for the leftover item alike.
\* Stated for both implementations; _mergeInsertionSort (v1) searches one
\* item more, the paired larger item, from 6 items on.
C26_GroupSearchBound ==
    (call.fn = "mergeInsertionSort" /\ DistinctInput /\ call.status = "running") =>
        /\ InsertDue =>
              Len(SearchedRange(Started)) <= 2 ^ (GroupOf(Top(call).g) + 1) - 1
        /\ Searching =>
              Trailing(call.log, Top(call).item) <= GroupOf(Top(call).g) + 1
        /\ (AtPc("insert") /\ Top(call).g > 1) =>
              Trailing(call.log, Top(call).item) <= GroupOf(Top(call).g - 1) + 1

\* C26 for the named export alone (v2): its searches stay within the bound
\* of their group, up to the third group.
C26_NamedExportGroupSearchBound ==
    call.impl = "v2" => C26_GroupSearchBound

(* claims about a failing wrapped comparator *)
\* C27: when the wrapped comparator fails, the query that invoked it fails
\* too and the cache is left as it was: the cache holds exactly the winners
\* of the invocations that answered, and a query is answered without an
\* invocation only if an earlier query for its pair got a winner, so that a
\* query for a pair that only failed so far invokes the wrapped comparator
\* again.
C27_FailureNotCached ==
    /\ wrapper.cache =
          { <<wrapper.answers[k].a, wrapper.answers[k].b,
              IF wrapper.answers[k].rv = "one" THEN 1 ELSE 0>> :
              k \in { j \in DOMAIN wrapper.answers :
                        Invoked(j) /\ wrapper.answers[j].rv # "rejected" } }
    /\ \A j \in DOMAIN wrapper.log :
          wrapper.log[j].out = "rejected" =>
              \E k \in DOMAIN wrapper.answers :
                  /\ Invoked(k) /\ wrapper.answers[k].made = j
                  /\ wrapper.answers[k].rv = "rejected"
                  /\ wrapper.answers[k].a = wrapper.log[j].a
                  /\ wrapper.answers[k].b = wrapper.log[j].b
    /\ \A k \in DOMAIN wrapper.answers :
          ~Invoked(k) =>
              \E j \in 1..(k - 1) :
                  /\ SamePair(wrapper.answers[j], wrapper.answers[k])
                  /\ wrapper.answers[j].rv # "rejected"

\* (1,2) got a winner, (1,3) failed, and (3,1), queried next, was answered by
\* the wrapped comparator; the cache holds both winners
C27_Witness ==
    /\ Len(wrapper.answers) = 3 /\ Len(wrapper.log) = 3
    /\ wrapper.answers[1] = [a |-> 1, b |-> 2, rv |-> "one", made |-> 1]
    /\ wrapper.answers[2] = [a |-> 1, b |-> 3, rv |-> "rejected", made |-> 2]
    /\ wrapper.answers[3] = [a |-> 3, b |-> 1, rv |-> "zero", made |-> 3]
    /\ wrapper.cache = {<<1, 2, 1>>, <<3, 1, 0>>}

(* claims about _binInsert called on its own *)
\* the last position _binInsert may look at, 0-based: min(right, length - 1)
LastSearched == IF search.right < Len(search.snapshot) - 1 THEN search.right
                ELSE Len(search.snapshot) - 1

\* C28: _binInsert on an ascending array that does not hold the item rejects
\* a negative right with the error "right index may not be negative", and
\* otherwise compares the item with elements at positions
\* 0..min(right, length - 1) only and, when it returns, has put the item into
\* the caller's array at an index of 0..min(right, length - 1) + 1: the array
\* is one element longer and its earlier elements are in their earlier order.
C28_BinInsertInPlace ==
    (search.fn = "_binInsert" /\ ~\E k \in DOMAIN search.snapshot :
                                      search.snapshot[k] = search.item) =>
        LET array == search.heap[CallerArray]
        IN  /\ search.right < 0 =>
                  /\ search.status = "failed"
                  /\ search.error = "right index may not be negative"
                  /\ array = search.snapshot /\ search.log = <<>>
            /\ search.right >= 0 =>
                  /\ \A j \in DOMAIN search.log :
                        /\ search.log[j].a = search.item
                        /\ \E k \in 1..(LastSearched + 1) :
                              search.log[j].b = search.snapshot[k]
                  /\ search.status = "failed" => search.error = "comparator failed"
                  /\ search.status # "returned" => array = search.snapshot
                  /\ search.status = "returned" =>
                        \E idx \in 1..(LastSearched + 2) :
                            /\ OneMore(search.snapshot, array, idx)
                            /\ array[idx] = search.item

\* the case of the test: with right = 3 the item 7 goes before the last
\* element of [1, 2, 3, 4, 6], which the search does not look at
C28_Witness ==
    /\ search.fn = "_binInsert" /\ search.status = "returned"
    /\ search.kind = "total" /\ search.right = 3 /\ search.item = 7
    /\ search.snapshot = <<1, 2, 3, 4, 6>>
    /\ search.heap[CallerArray] = <<1, 2, 3, 4, 7, 6>>

\* a negative right is rejected
C28_NegativeRightWitness ==
    /\ search.fn = "_binInsert" /\ search.right < 0 /\ search.status = "failed"
    /\ search.snapshot = <<1, 2>> /\ search.item = 3

====
